---------------------------- MODULE Spec2Model ----------------------------
(***************************************************************************)
(* react-update (src/src/index.js): shorthand, path-addressed immutable    *)
(* updates of a value, either pure (updateSilent) or bound to a stateful   *)
(* host component (updateState).                                           *)
(*                                                                         *)
(* JavaScript values are encoded as records of one uniform shape           *)
(*   [t, id, n, e, f]                                                      *)
(* t : "undef" | "num" | "arr" | "obj" | "error"                           *)
(* id: the identity of an object or array (0 for primitives)               *)
(* n : the number of a "num"                                               *)
(* e : the elements of an "arr"                                            *)
(* f : the own properties, a function from keys to values                  *)
(* A string is a sequence of symbols; a key is a string.                   *)
(***************************************************************************)
EXTENDS Integers, Sequences, FiniteSets, TLC

VARIABLES
  src,      \* free mode: the caller's source value
  pathArg,  \* the caller's path argument (a key sequence is a mutable object)
  last,     \* record of the most recent call of update
  prev,     \* record of the call before it
  nCalls,   \* number of update calls made so far
  nextId,   \* next unused object identity
  state,    \* state[h]: committed state of host h (its own properties)
  queue,    \* queue[h]: _reactInternalInstance._pendingStateQueue of host h
  cache,    \* cache[h]: the __lastState property of host h
  commits,  \* commits[h]: number of setState calls received by host h
  tick      \* tick[h]: the committed state at the last commit of h and the
            \* fragments handed to setState since then

vars == <<src, pathArg, last, prev, nCalls, nextId, state, queue, cache, commits, tick>>

-----------------------------------------------------------------------------
(* Bounds *)

MaxCalls == 3
MaxFreeCalls == 2

-----------------------------------------------------------------------------
(* Values *)

NoFields == <<>>

Undefined == [t |-> "undef", id |-> 0, n |-> 0, e |-> <<>>, f |-> NoFields]
Err       == [t |-> "error", id |-> 0, n |-> 0, e |-> <<>>, f |-> NoFields]
Num(k)    == [t |-> "num",   id |-> 0, n |-> k, e |-> <<>>, f |-> NoFields]
Arr(i, elems)  == [t |-> "arr", id |-> i, n |-> 0, e |-> elems, f |-> NoFields]
Obj(i, fields) == [t |-> "obj", id |-> i, n |-> 0, e |-> <<>>, f |-> fields]

\* object[key]: a missing property reads as undefined
Get(fields, key) == IF key \in DOMAIN fields THEN fields[key] ELSE Undefined

\* object[key] = value
Put(fields, key, value) ==
  [k \in (DOMAIN fields) \cup {key} |-> IF k = key THEN value ELSE fields[k]]

\* Object.assign(target, source) on own properties
Assign(target, source) ==
  [k \in (DOMAIN target) \cup (DOMAIN source) |->
     IF k \in DOMAIN source THEN source[k] ELSE target[k]]

\* String(undefined), the property name an undefined key turns into
KeyUndefined == <<"undefined">>

CmdSet    == <<"$set">>
CmdPush   == <<"$push">>
CmdSplice == <<"$splice">>

\* the contents of a value, identities erased
RECURSIVE Strip(_)
Strip(v) ==
  [t |-> v.t, id |-> 0, n |-> v.n,
   e |-> [i \in 1..Len(v.e) |-> Strip(v.e[i])],
   f |-> [k \in DOMAIN v.f |-> Strip(v.f[k])]]

StripFields(fields) == [k \in DOMAIN fields |-> Strip(fields[k])]

-----------------------------------------------------------------------------
(* Path arguments: absent, a delimited string, a key sequence, or (bound   *)
(* mode) a plain mapping from paths to values, kept in key order.          *)

NoPath       == [kind |-> "none", s |-> <<>>, a |-> <<>>, m |-> <<>>]
StrPath(str) == [kind |-> "str",  s |-> str,  a |-> <<>>, m |-> <<>>]
ArrPath(ks)  == [kind |-> "arr",  s |-> <<>>, a |-> ks,   m |-> <<>>]
MapPath(es)  == [kind |-> "map",  s |-> <<>>, a |-> <<>>, m |-> es]

Entry(str, value) == [k |-> str, v |-> value]

-----------------------------------------------------------------------------
(* The patch commands, index.js 13-26 *)

commandsSet(value) == Obj(0, [k \in {CmdSet} |-> value])

commandsPush(value) == Obj(0, [k \in {CmdPush} |-> Arr(0, <<value>>)])

\* mutant: two elements removed instead of one
commandsSplice_TwoElements(value) ==
  Obj(0, [k \in {CmdSplice} |-> Arr(0, << Arr(0, <<value, Num(2)>>) >>)])

commandsSplice(value) ==
  Obj(0, [k \in {CmdSplice} |-> Arr(0, << Arr(0, <<value, Num(1)>>) >>)])

\* mutant: an unknown type falls back to set instead of throwing
getImmutabilitySugarCommand_Fallback(type, value) ==
  IF type = "push" THEN commandsPush(value)
  ELSE IF type = "splice" THEN commandsSplice(value)
  ELSE commandsSet(value)

\* commands[type](value); calling a missing builder throws a TypeError
getImmutabilitySugarCommand(type, value) ==
  IF type = "set" THEN commandsSet(value)
  ELSE IF type = "push" THEN commandsPush(value)
  ELSE IF type = "splice" THEN commandsSplice(value)
  ELSE Err

\* path.forEach(key => { temp[key] = {}; temp = temp[key] }); temp[lastKey] = value
RECURSIVE Nest(_, _)
Nest(keys, inner) ==
  IF keys = <<>> THEN inner
  ELSE Obj(0, [k \in {Head(keys)} |-> Nest(Tail(keys), inner)])

\* mutant: the keys before the last one are not nested
getNestedData_LastKeyOnly(path, value) ==
  IF path.kind = "arr"
  THEN [target |-> Nest(<<IF path.a = <<>> THEN KeyUndefined ELSE path.a[Len(path.a)]>>, value),
        arr    |-> IF path.a = <<>> THEN <<>> ELSE SubSeq(path.a, 1, Len(path.a) - 1)]
  ELSE [target |-> value, arr |-> <<>>]

\* [a, b] with 1 => {a: {b: 1}}.  target is the nested data, arr what is left
\* of the key sequence passed in (path.pop() removes its last key).
getNestedData(path, value) ==
  IF path.kind = "arr"
  THEN LET lastKey == IF path.a = <<>> THEN KeyUndefined ELSE path.a[Len(path.a)]
           rest    == IF path.a = <<>> THEN <<>> ELSE SubSeq(path.a, 1, Len(path.a) - 1)
       IN [target |-> Nest(Append(rest, lastKey), value), arr |-> rest]
  ELSE IF path.kind = "str" /\ path.s # <<>>
  THEN [target |-> Nest(<<path.s>>, value), arr |-> <<>>]
  ELSE IF path.kind = "map"
  THEN [target |-> Nest(<< <<"[object Object]">> >>, value), arr |-> <<>>]
  ELSE [target |-> value, arr |-> <<>>]

\* val is the sugar (Err when the command builder throws, before the path is
\* touched), arr the key sequence afterwards
NestedSugar(nd) == [val |-> nd.target, arr |-> nd.arr]

SugarOf(command, path) ==
  IF command.t = "error" THEN [val |-> Err, arr |-> path.a]
  ELSE NestedSugar(getNestedData(path, command))

getImmutabilitySugar(type, path, value) ==
  SugarOf(getImmutabilitySugarCommand(type, value), path)

-----------------------------------------------------------------------------
(* immutability-helper, the external patch applier (spec section 6)        *)

Min(a, b) == IF a < b THEN a ELSE b
Max(a, b) == IF a > b THEN a ELSE b

\* ToIntegerOrInfinity of a value used as a splice argument
RECURSIVE ToInteger(_)
ToInteger(v) ==
  IF v.t = "num" THEN v.n
  ELSE IF v.t = "arr" /\ Len(v.e) = 1 THEN ToInteger(v.e[1])
  ELSE 0

\* Array.prototype.splice.apply(copy, args) for args = [start, deleteCount]
SpliceArgs(elems, args) ==
  LET len    == Len(elems)
      rel    == IF Len(args) >= 1 THEN ToInteger(args[1]) ELSE 0
      actual == IF rel < 0 THEN Max(len + rel, 0) ELSE Min(rel, len)
      cnt    == IF Len(args) >= 2 THEN Min(Max(ToInteger(args[2]), 0), len - actual)
                ELSE IF Len(args) = 1 THEN len - actual ELSE 0
  IN SubSeq(elems, 1, actual) \o SubSeq(elems, actual + cnt + 1, len)

RECURSIVE SpliceAll(_, _)
SpliceAll(elems, argsList) ==
  IF argsList = <<>> THEN elems
  ELSE SpliceAll(SpliceArgs(elems, Head(argsList).e), Tail(argsList))

\* update(object, spec): a new value with the addressed subtree replaced; the
\* copies made on the way down get the identities fresh, fresh + 1, ...
RECURSIVE immutabilityUpdate(_, _, _)
immutabilityUpdate(object, spec, fresh) ==
  IF spec.t # "obj" THEN Err
  ELSE IF CmdSet \in DOMAIN spec.f THEN spec.f[CmdSet]
  ELSE IF CmdPush \in DOMAIN spec.f
  THEN IF object.t = "arr" /\ spec.f[CmdPush].t = "arr"
       THEN [object EXCEPT !.id = fresh, !.e = object.e \o spec.f[CmdPush].e]
       ELSE Err
  ELSE IF CmdSplice \in DOMAIN spec.f
  THEN IF /\ object.t = "arr"
          /\ spec.f[CmdSplice].t = "arr"
          /\ \A i \in 1..Len(spec.f[CmdSplice].e) : spec.f[CmdSplice].e[i].t = "arr"
       THEN [object EXCEPT !.id = fresh, !.e = SpliceAll(object.e, spec.f[CmdSplice].e)]
       ELSE Err
  ELSE IF object.t \notin {"obj", "arr"} THEN Err
  ELSE LET subs == [k \in DOMAIN spec.f |->
                      immutabilityUpdate(Get(object.f, k), spec.f[k], fresh + 1)]
       IN IF \E k \in DOMAIN subs : subs[k].t = "error" THEN Err
          ELSE [object EXCEPT !.id = fresh, !.f = Assign(object.f, subs)]

-----------------------------------------------------------------------------
(* updateHelper.update and the path resolver, index.js 62-89 *)

\* val: the new value or Err; arr: the key sequence afterwards
ApplySugar(source, sugar, fresh) ==
  [val |-> IF sugar.val.t = "error" THEN Err
           ELSE immutabilityUpdate(source, sugar.val, fresh),
   arr |-> sugar.arr]

updateHelperUpdate(source, type, path, value, fresh) ==
  ApplySugar(source, getImmutabilitySugar(type, path, value), fresh)

Delims == {".", "[", "]"}

\* str.split(/\.|\[|\]/): every token between delimiters, empty ones included
RECURSIVE SplitOn(_, _)
SplitOn(str, cur) ==
  IF str = <<>> THEN <<cur>>
  ELSE IF Head(str) \in Delims THEN <<cur>> \o SplitOn(Tail(str), <<>>)
  ELSE SplitOn(Tail(str), Append(cur, Head(str)))

Truthy(token) == token # <<>>

\* mutant: the string is split on '.' alone
RECURSIVE SplitOnDot(_, _)
SplitOnDot(str, cur) ==
  IF str = <<>> THEN <<cur>>
  ELSE IF Head(str) = "." THEN <<cur>> \o SplitOnDot(Tail(str), <<>>)
  ELSE SplitOnDot(Tail(str), Append(cur, Head(str)))

getPathArray_DotOnly(path) ==
  IF path.kind = "str"
  THEN ArrPath(SelectSeq(SplitOnDot(path.s, <<>>), Truthy))
  ELSE path

\* 'a.b.c' => ['a', 'b', 'c']; anything but a string is returned as it is
getPathArray(path) ==
  IF path.kind = "str"
  THEN ArrPath(SelectSeq(SplitOn(path.s, <<>>), Truthy))
  ELSE path

\* 'a.b.c' or ['a', 'b', 'c'] => ['a', ['b', 'c']].  ok is FALSE when
\* path.shift() throws (the path is no sequence); arr is the sequence after shift().
Destruct(p) ==
  IF p.kind # "arr"
  THEN [ok |-> FALSE, prop |-> KeyUndefined, path |-> NoPath, arr |-> <<>>]
  ELSE LET shifted == IF p.a = <<>> THEN <<>> ELSE Tail(p.a)
       IN [ok   |-> TRUE,
           prop |-> IF p.a = <<>> THEN KeyUndefined ELSE Head(p.a),
           path |-> IF shifted = <<>> THEN NoPath ELSE ArrPath(shifted),
           arr  |-> shifted]

getDestructPath(path) == Destruct(getPathArray(path))

\* updateSilent(source, type, path, value)
updateSilent(source, type, path, value, fresh) ==
  updateHelperUpdate(source, type, getPathArray(path), value, fresh)

-----------------------------------------------------------------------------
(* The host: a component with committed state, a pending-state queue and   *)
(* setState (spec section 6).  queue and cache are [present, ...] records. *)

NoQueue == [present |-> FALSE, items |-> <<>>]
NoCache == [present |-> FALSE, val |-> NoFields]

\* this.setState(fragment): the fragment joins the pending-state queue
setState(q, fragment) == [present |-> TRUE, items |-> Append(q.items, fragment)]

\* the host's commit: the queued fragments are merged in order onto the state
RECURSIVE MergeAll(_, _)
MergeAll(st, items) ==
  IF items = <<>> THEN st ELSE MergeAll(Assign(st, Head(items)), Tail(items))

-----------------------------------------------------------------------------
(* The state-binding layer, index.js 68-140 *)

isPlainObject(path) == path.kind = "map"

\* mutant: the cache is kept when the host has no pending queue
getCachedLastState_KeepCache(st, q, c) ==
  IF q.present
  THEN [queue |-> [present |-> TRUE,
                   items |-> IF q.items = <<>> THEN <<>>
                             ELSE SubSeq(q.items, 1, Len(q.items) - 1)],
        cache |-> [present |-> TRUE,
                   val |-> Assign(IF c.present THEN c.val ELSE st,
                                  IF q.items = <<>> THEN NoFields
                                  ELSE q.items[Len(q.items)])]]
  ELSE [queue |-> q, cache |-> c]

\* Cache last state when call update multiple times: queue.pop() takes the
\* newest pending fragment out of the host's queue and merges it into the cache.
getCachedLastState(st, q, c) ==
  IF q.present
  THEN LET n      == Len(q.items)
           popped == IF n = 0 THEN NoFields ELSE q.items[n]
           rest   == IF n = 0 THEN <<>> ELSE SubSeq(q.items, 1, n - 1)
       IN [queue |-> [present |-> TRUE, items |-> rest],
           cache |-> [present |-> TRUE,
                      val |-> IF c.present THEN Assign(c.val, popped)
                              ELSE Assign(st, popped)]]
  ELSE [queue |-> q, cache |-> NoCache]

\* the else branch of updateNextState: one (path, value) update.
\* ctx = [ok, nextState, lastState, fresh, arr]; ok turns FALSE when it throws.
\* nextState[prop] = <r>, r the outcome of updateHelper.update
StoreUpdated(ctx, d, ls, r) ==
  [ok        |-> r.val.t # "error",
   nextState |-> IF r.val.t # "error" THEN Put(ctx.nextState, d.prop, r.val)
                 ELSE ctx.nextState,
   lastState |-> ls,
   fresh     |-> ctx.fresh + Len(d.arr) + 1,
   arr       |-> r.arr]

\* ls is lastState after: if (prop in nextState) lastState[prop] = nextState[prop]
UpdateFrom(ctx, type, value, d, ls) ==
  StoreUpdated(ctx, d, ls,
               updateHelperUpdate(Get(ls, d.prop), type, d.path, value, ctx.fresh))

\* mutant: a whole-property set starts the fragment afresh
UpdateProp_FreshFragment(ctx, type, value, d) ==
  IF ~d.ok THEN [ctx EXCEPT !.ok = FALSE]
  ELSE IF d.path.kind = "none" /\ type = "set"
  THEN [ctx EXCEPT !.nextState = Put(NoFields, d.prop, value), !.arr = d.arr]
  ELSE UpdateFrom(ctx, type, value, d,
                  IF d.prop \in DOMAIN ctx.nextState
                  THEN Put(ctx.lastState, d.prop, ctx.nextState[d.prop])
                  ELSE ctx.lastState)

\* mutant: an earlier write of the same call is not rolled into lastState
UpdateProp_NoRollback(ctx, type, value, d) ==
  IF ~d.ok THEN [ctx EXCEPT !.ok = FALSE]
  ELSE IF d.path.kind = "none" /\ type = "set"
  THEN [ctx EXCEPT !.nextState = Put(@, d.prop, value), !.arr = d.arr]
  ELSE UpdateFrom(ctx, type, value, d, ctx.lastState)

\* d is the destructured path [prop, remainPath]
UpdateProp(ctx, type, value, d) ==
  IF ~d.ok THEN [ctx EXCEPT !.ok = FALSE]
  ELSE IF d.path.kind = "none" /\ type = "set"
  THEN [ctx EXCEPT !.nextState = Put(@, d.prop, value), !.arr = d.arr]
  ELSE UpdateFrom(ctx, type, value, d,
                  IF d.prop \in DOMAIN ctx.nextState
                  THEN Put(ctx.lastState, d.prop, ctx.nextState[d.prop])
                  ELSE ctx.lastState)

updateLeaf(ctx, type, path, value) ==
  UpdateProp(ctx, type, value, getDestructPath(path))

RECURSIVE updateNextState(_, _, _, _)
RECURSIVE updateEntries(_, _, _)
\* the entries of a plain-object value, as a multi-path mapping
RECURSIVE EntriesOf(_)
EntriesOf(fields) ==
  IF DOMAIN fields = {} THEN <<>>
  ELSE LET k == CHOOSE key \in DOMAIN fields : TRUE
       IN <<Entry(k, fields[k])>>
            \o EntriesOf([j \in DOMAIN fields \ {k} |-> fields[j]])

\* mutant: a value that is a plain object is expanded as a mapping of
\* further updates
RECURSIVE updateEntries_Descend(_, _, _)
updateEntries_Descend(ctx, type, entries) ==
  IF entries = <<>> \/ ~ctx.ok THEN ctx
  ELSE updateEntries_Descend(
         IF Head(entries).v.t = "obj"
         THEN updateNextState(ctx, type, MapPath(EntriesOf(Head(entries).v.f)), Undefined)
         ELSE updateNextState(ctx, type, StrPath(Head(entries).k), Head(entries).v),
         type, Tail(entries))

\* Object.keys(path).forEach(key => updateNextState(type, key, path[key]))
updateEntries(ctx, type, entries) ==
  IF entries = <<>> \/ ~ctx.ok THEN ctx
  ELSE updateEntries(
         updateNextState(ctx, type, StrPath(Head(entries).k), Head(entries).v),
         type, Tail(entries))

updateNextState(ctx, type, path, value) ==
  IF isPlainObject(path) THEN updateEntries(ctx, type, path.m)
  ELSE updateLeaf(ctx, type, path, value)

\* mutant: the fragment is returned whatever its size
Unwrap_Never(nextState) == Obj(0, nextState)

\* keys.length === 1 ? nextState[keys[0]] : nextState
Unwrap(nextState) ==
  IF Cardinality(DOMAIN nextState) = 1
  THEN nextState[CHOOSE k \in DOMAIN nextState : TRUE]
  ELSE Obj(0, nextState)

\* updateState.apply(this, [type, path, value]) on a host whose committed
\* state, queue and cache are st, q, c.  lastState is the cache when there is
\* one and else this.state itself, so writes to it land in that object.
\* the end of updateState: this.setState(nextState) and the return value,
\* unless updateNextState threw.  g is what getCachedLastState left, base the
\* lastState the call started from, ctx what updateNextState left.
FinishUpdateState(st, g, base, ctx) ==
  [mode  |-> "bound",
   ok    |-> ctx.ok,
   ret   |-> IF ctx.ok THEN Unwrap(ctx.nextState) ELSE Err,
   frag  |-> ctx.nextState,
   base  |-> base,
   state |-> IF g.cache.present THEN st ELSE ctx.lastState,
   cache |-> IF g.cache.present THEN [present |-> TRUE, val |-> ctx.lastState]
             ELSE g.cache,
   queue |-> IF ctx.ok THEN setState(g.queue, ctx.nextState) ELSE g.queue,
   set   |-> ctx.ok,
   arr   |-> ctx.arr,
   fresh |-> ctx.fresh]

\* const lastState = getCachedLastState(this) || this.state; const nextState = {}
RunUpdateState(st, g, base, type, path, value, fresh) ==
  FinishUpdateState(st, g, base,
    updateNextState([ok |-> TRUE, nextState |-> NoFields, lastState |-> base,
                     fresh |-> fresh, arr |-> path.a],
                    type, path, value))

LastStateOf(st, g) == IF g.cache.present THEN g.cache.val ELSE st

StartUpdateState(st, g, type, path, value, fresh) ==
  RunUpdateState(st, g, LastStateOf(st, g), type, path, value, fresh)

updateState(st, q, c, type, path, value, fresh) ==
  StartUpdateState(st, getCachedLastState(st, q, c), type, path, value, fresh)

-----------------------------------------------------------------------------
(* update, index.js 154-160 *)

Hosts   == {"h1", "h2"}
Objects == Hosts \cup {"plain"}

\* which objects carry the isReactComponent marker
Marker == [o \in Objects |-> o \in Hosts]

\* mutant: any object is taken for a host
isReactComponent_AnyThis(this) == this # "undefined"

\* this && this.isReactComponent
isReactComponent(this) == this # "undefined" /\ Marker[this]

\* update.apply(this, args): args are [type, path, value] for a bound call
\* and [source, type, path, value] for a pure one
\* the outcome r of updateSilent, in the shape of updateState's
SilentOutcome(st, q, c, r, fresh) ==
  [mode  |-> "free",
   ok    |-> r.val.t # "error",
   ret   |-> r.val,
   frag  |-> NoFields,
   base  |-> NoFields,
   state |-> st,
   cache |-> c,
   queue |-> q,
   set   |-> FALSE,
   arr   |-> r.arr,
   fresh |-> fresh]

update(this, st, q, c, source, type, path, value, fresh) ==
  IF isReactComponent(this)
  THEN updateState(st, q, c, type, path, value, fresh)
  ELSE SilentOutcome(st, q, c, updateSilent(source, type, path, value, fresh),
                     fresh + Len(getPathArray(path).a) + 1)

-----------------------------------------------------------------------------
(* Inputs *)

Str1(x)             == <<x>>
Dot(x, y)           == <<x, ".", y>>
DotBracket(x, y, z) == <<x, ".", y, "[", z, "]">>

Types == {"set", "push", "splice", "bogus"}

\* {a: {b: {c: [1, 0, 1]}, x: 0}, l: [1]}
SrcObj ==
  Obj(1, [k \in {Str1("a"), Str1("l")} |->
     IF k = Str1("a")
     THEN Obj(2, [j \in {Str1("b"), Str1("x")} |->
             IF j = Str1("b")
             THEN Obj(3, [i \in {Str1("c")} |-> Arr(4, <<Num(1), Num(0), Num(1)>>)])
             ELSE Num(0)])
     ELSE Arr(5, <<Num(1)>>)])

\* [1, 0, 1]
SrcArr == Arr(6, <<Num(1), Num(0), Num(1)>>)

FreeValues == {Num(0), Num(1), Num(-1), Arr(7, <<Num(1)>>)}

FreePaths ==
  { NoPath,
    StrPath(<<>>),
    StrPath(Str1("l")),
    StrPath(Dot("a", "x")),
    StrPath(DotBracket("a", "b", "c")),
    StrPath(<<"[", "l", "]", ".">>),
    ArrPath(<<Str1("l")>>),
    ArrPath(<<Str1("a"), Str1("x")>>),
    ArrPath(<<Str1("a"), Str1("b"), Str1("c")>>) }

FreeInputs ==
  {[src |-> SrcObj, path |-> p] : p \in FreePaths}
    \cup {[src |-> SrcArr, path |-> p] : p \in {NoPath, ArrPath(<<>>), StrPath(<<>>)}}

\* {a: {x: 0, y: 0}, b: 0, l: [0]}; every object has its own identities
HostState(o) ==
  LET i == IF o = "h1" THEN 10 ELSE IF o = "h2" THEN 12 ELSE 14 IN
  [k \in {Str1("a"), Str1("b"), Str1("l")} |->
     IF k = Str1("a")
     THEN Obj(i, [j \in {Str1("x"), Str1("y")} |-> Num(0)])
     ELSE IF k = Str1("b") THEN Num(0)
     ELSE Arr(i + 1, <<Num(0)>>)]

Req(type, path, value) == [type |-> type, path |-> path, value |-> value, own |-> FALSE]

\* a call that passes the caller's own key sequence object, pathArg
OwnReq(type, value) == [type |-> type, path |-> NoPath, value |-> value, own |-> TRUE]

BoundReqs ==
  { Req("set", StrPath(Dot("a", "x")), Num(1)),
    Req("set", StrPath(Dot("a", "y")), Num(2)),
    Req("set", StrPath(Str1("b")), Num(5)),
    Req("set", MapPath(<<Entry(Str1("a"), Num(1)), Entry(Str1("b"), Num(2))>>), Undefined),
    Req("set", MapPath(<<Entry(Dot("a", "x"), Num(1)), Entry(Dot("a", "y"), Num(2))>>), Undefined),
    Req("set", MapPath(<<Entry(Str1("a"), Obj(8, [k \in {Str1("x")} |-> Num(1)]))>>), Undefined),
    Req("push", StrPath(Str1("l")), Num(1)),
    Req("splice", StrPath(Str1("l")), Num(0)),
    Req("push", StrPath(Str1("b")), Num(1)),
    Req("push", MapPath(<<Entry(Str1("l"), Num(1)), Entry(<<"[", "l", "]">>, Num(2))>>), Undefined),
    Req("set", MapPath(<<Entry(Str1("a"), Num(9)),
                         Entry(<<"a", ".", "q", ".", "z">>, Num(1))>>), Undefined),
    Req("bogus", StrPath(Str1("a")), Num(1)),
    Req("bogus", MapPath(<<>>), Undefined),
    Req("set", NoPath, Num(1)),
    OwnReq("set", Num(3)) }

OtherHostReqs ==
  { Req("set", StrPath(Dot("a", "x")), Num(7)),
    Req("set", StrPath(Str1("b")), Num(8)) }

PureReqs ==
  { Req("set", StrPath(Dot("a", "x")), Num(1)),
    Req("bogus", NoPath, Num(1)),
    Req("bogus", StrPath(Str1("l")), Num(1)),
    OwnReq("bogus", Num(1)) }

ReqsOf(this) ==
  IF this = "h1" THEN BoundReqs
  ELSE IF this = "h2" THEN OtherHostReqs
  ELSE PureReqs

-----------------------------------------------------------------------------
(* State machine *)

NoCall ==
  [mode |-> "none", this |-> "undefined", type |-> "set", path |-> NoPath,
   value |-> Undefined, source |-> Undefined, ok |-> FALSE, ret |-> Undefined,
   frag |-> NoFields, base |-> NoFields, expect |-> NoFields]

HostsInit ==
  /\ state   = [o \in Objects |-> HostState(o)]
  /\ queue   = [o \in Objects |-> NoQueue]
  /\ cache   = [o \in Objects |-> NoCache]
  /\ commits = [o \in Objects |-> 0]
  /\ tick    = [o \in Objects |-> [start |-> HostState(o), sent |-> <<>>]]

Init ==
  /\ src = SrcObj
  /\ pathArg = ArrPath(<<Str1("a"), Str1("x")>>)
  /\ last = NoCall
  /\ prev = NoCall
  /\ nCalls = 0
  /\ nextId = 20
  /\ HostsInit

InitFree ==
  /\ \E in \in FreeInputs : src = in.src /\ pathArg = in.path
  /\ last = NoCall
  /\ prev = NoCall
  /\ nCalls = 0
  /\ nextId = 20
  /\ HostsInit

\* what the call leaves in the caller's path argument
PathAfter(path, E) == IF path.kind = "arr" THEN ArrPath(E.arr) ELSE path

CallRecord(this, source, type, path, value, E, expect) ==
  [mode |-> E.mode, this |-> this, type |-> type, path |-> path, value |-> value,
   source |-> source, ok |-> E.ok, ret |-> E.ret, frag |-> E.frag,
   base |-> E.base, expect |-> expect]

\* mutant: the cache slot is one for all objects
Effect_SharedCache(this, o, req, path, E) ==
  /\ state'   = [state EXCEPT ![o] = E.state]
  /\ queue'   = [queue EXCEPT ![o] = E.queue]
  /\ cache'   = [h \in Objects |-> E.cache]
  /\ commits' = [commits EXCEPT ![o] = IF E.set THEN @ + 1 ELSE @]
  /\ tick'    = [tick EXCEPT ![o].sent = IF E.set THEN Append(@, E.frag) ELSE @]
  /\ pathArg' = IF req.own THEN PathAfter(pathArg, E) ELSE pathArg
  /\ nextId'  = E.fresh
  /\ last'    = CallRecord(this, IF E.mode = "free" THEN src ELSE Undefined,
                           req.type, path, req.value, E,
                           MergeAll(tick[o].start, tick[o].sent))

\* update.call(this, ...) by a caller holding src and pathArg
\* the effect E of a call on the object o whose fields the call may touch
Effect(this, o, req, path, E) ==
  /\ state'   = [state EXCEPT ![o] = E.state]
  /\ queue'   = [queue EXCEPT ![o] = E.queue]
  /\ cache'   = [cache EXCEPT ![o] = E.cache]
  /\ commits' = [commits EXCEPT ![o] = IF E.set THEN @ + 1 ELSE @]
  /\ tick'    = [tick EXCEPT ![o].sent = IF E.set THEN Append(@, E.frag) ELSE @]
  /\ pathArg' = IF req.own THEN PathAfter(pathArg, E) ELSE pathArg
  /\ nextId'  = E.fresh
  /\ last'    = CallRecord(this, IF E.mode = "free" THEN src ELSE Undefined,
                           req.type, path, req.value, E,
                           MergeAll(tick[o].start, tick[o].sent))

UpdateOn(this, o, req, path) ==
  Effect(this, o, req, path,
         update(this, state[o], queue[o], cache[o],
                src, req.type, path, req.value, nextId))

Update(this, req) ==
  /\ nCalls < MaxCalls
  /\ UpdateOn(this, IF this = "undefined" THEN "plain" ELSE this, req,
              IF req.own THEN pathArg ELSE req.path)
  /\ prev' = last
  /\ nCalls' = nCalls + 1
  /\ UNCHANGED src

\* the host applies its pending fragments and empties its queue
Commit(h) ==
  /\ queue[h].present
  /\ state' = [state EXCEPT ![h] = MergeAll(state[h], queue[h].items)]
  /\ queue' = [queue EXCEPT ![h] = NoQueue]
  /\ tick'  = [tick EXCEPT ![h] = [start |-> state'[h], sent |-> <<>>]]
  /\ UNCHANGED <<src, pathArg, last, prev, nCalls, nextId, cache, commits>>

Next ==
  \/ \E this \in Objects \cup {"undefined"} : \E req \in ReqsOf(this) : Update(this, req)
  \/ \E h \in Hosts : Commit(h)

Spec == Init /\ [][Next]_vars

\* update(src, type, pathArg, value) called as a plain function
FreeEffect(type, value, E) ==
  /\ pathArg' = PathAfter(pathArg, E)
  /\ nextId'  = E.fresh
  /\ last'    = CallRecord("undefined", src, type, pathArg, value, E, NoFields)

FreeUpdate(type, value) ==
  /\ nCalls < MaxFreeCalls
  /\ FreeEffect(type, value,
                update("undefined", state["plain"], queue["plain"], cache["plain"],
                       src, type, pathArg, value, nextId))
  /\ prev' = last
  /\ nCalls' = nCalls + 1
  /\ UNCHANGED <<src, state, queue, cache, commits, tick>>

\* the caller takes the returned value as its next source
Feed ==
  /\ last.mode = "free"
  /\ last.ok
  /\ src # last.ret
  /\ src' = last.ret
  /\ UNCHANGED <<pathArg, last, prev, nCalls, nextId, state, queue, cache, commits, tick>>

NextFree ==
  \/ \E type \in Types : \E value \in FreeValues : FreeUpdate(type, value)
  \/ Feed

SpecFree == InitFree /\ [][NextFree]_vars

-----------------------------------------------------------------------------
(* Reference notions used to state the properties *)

IsDelim(c) == c \in {".", "[", "]"}

RECURSIVE Ascending(_)
Ascending(S) ==
  IF S = {} THEN <<>>
  ELSE LET m == CHOOSE x \in S : \A y \in S : x <= y
       IN <<m>> \o Ascending(S \ {m})

\* the maximal runs of non-delimiter symbols of a string, in order
RunStarts(str) ==
  {i \in 1..Len(str) : ~IsDelim(str[i]) /\ (i = 1 \/ IsDelim(str[i - 1]))}

RunEnd(str, i) ==
  CHOOSE j \in i..Len(str) :
    /\ \A k \in i..j : ~IsDelim(str[k])
    /\ (j = Len(str) \/ IsDelim(str[j + 1]))

RefKeys(str) ==
  LET starts == Ascending(RunStarts(str))
  IN [n \in 1..Len(starts) |-> SubSeq(str, starts[n], RunEnd(str, starts[n]))]

\* the ordered keys a path argument stands for
KeysOf(path) ==
  IF path.kind = "str" THEN RefKeys(path.s)
  ELSE IF path.kind = "arr" THEN path.a
  ELSE <<>>

\* the value at a key path (undefined where there is none)
RECURSIVE Lookup(_, _)
Lookup(v, keys) ==
  IF keys = <<>> THEN v ELSE Lookup(Get(v.f, Head(keys)), Tail(keys))

\* every key of the path is an own property of the object it is looked up in
RECURSIVE Exists(_, _)
Exists(v, keys) ==
  \/ keys = <<>>
  \/ /\ v.t = "obj"
     /\ Head(keys) \in DOMAIN v.f
     /\ Exists(v.f[Head(keys)], Tail(keys))

\* v with the value at an existing key path replaced by w
RECURSIVE Replaced(_, _, _)
Replaced(v, keys, w) ==
  IF keys = <<>> THEN w
  ELSE [v EXCEPT !.f = [k \in DOMAIN v.f |->
          IF k = Head(keys) THEN Replaced(v.f[k], Tail(keys), w) ELSE v.f[k]]]

RemoveAt(seq, i) ==
  [j \in 1..(Len(seq) - 1) |-> IF j < i THEN seq[j] ELSE seq[j + 1]]

\* seq without its first element equal to v, if it has one
RemoveFirst(seq, v) ==
  IF \E i \in 1..Len(seq) : seq[i] = v
  THEN RemoveAt(seq, CHOOSE i \in 1..Len(seq) :
                       seq[i] = v /\ \A j \in 1..(i - 1) : seq[j] # v)
  ELSE seq

\* seq without the element at zero-based position n, counted from the end
\* when n is negative (not below the first element)
RemoveAtPosition(seq, n) ==
  LET pos == IF n < 0 THEN (IF Len(seq) + n < 0 THEN 0 ELSE Len(seq) + n) ELSE n
  IN IF pos < Len(seq) THEN RemoveAt(seq, pos + 1) ELSE seq

FreeCallOf(c, type) == c.mode = "free" /\ c.type = type

-----------------------------------------------------------------------------
(* Properties of the pure update, checked under SpecFree *)

\* C1: a set at a path that addresses an existing key of the source returns a
\* value equal to the source except that the value at the path is V, and every
\* subtree of the source off the path from the root is the same object in it.
C1_SetReplacesAndShares ==
  (FreeCallOf(last, "set") /\ KeysOf(last.path) # <<>> /\ Exists(last.source, KeysOf(last.path)))
  => /\ last.ok
     /\ Strip(last.ret) = Strip(Replaced(last.source, KeysOf(last.path), last.value))
     /\ Lookup(last.ret, KeysOf(last.path)) = last.value
     /\ \A n \in 0..(Len(KeysOf(last.path)) - 1) :
          \A k \in DOMAIN Lookup(last.source, SubSeq(KeysOf(last.path), 1, n)).f :
            k # KeysOf(last.path)[n + 1]
            => Lookup(last.ret, Append(SubSeq(KeysOf(last.path), 1, n), k))
                 = Lookup(last.source, Append(SubSeq(KeysOf(last.path), 1, n), k))

C1_Witness ==
  /\ FreeCallOf(last, "set")
  /\ last.path = StrPath(DotBracket("a", "b", "c"))
  /\ last.source = SrcObj
  /\ last.ok
  /\ Lookup(last.ret, <<Str1("a"), Str1("x")>>) = Num(0)
  /\ Lookup(last.ret, <<Str1("l")>>) = Arr(5, <<Num(1)>>)
  /\ Lookup(last.ret, <<Str1("a"), Str1("b"), Str1("c")>>) = last.value

\* a splice call whose target, the value of the source at the path, is a sequence
SpliceOnSequence ==
  FreeCallOf(last, "splice") /\ Lookup(last.source, KeysOf(last.path)).t = "arr"

C6_PushAppendsOne ==
  (FreeCallOf(last, "push") /\ Lookup(last.source, KeysOf(last.path)).t = "arr")
  => /\ last.ok
     /\ Lookup(last.ret, KeysOf(last.path)).e
          = Append(Lookup(last.source, KeysOf(last.path)).e, last.value)

\* C7: the same set (same path argument, same value) applied to its own
\* result yields that result again.
C7_SetIdempotent ==
  (/\ FreeCallOf(prev, "set") /\ FreeCallOf(last, "set")
   /\ prev.ok
   /\ last.source = prev.ret
   /\ last.value = prev.value)
  => last.ok /\ Strip(last.ret) = Strip(prev.ret)

\* C8: a delimited string is normalized to its non-empty segments between
\* '.', '[' and ']', in order ('a.b[c]' to a, b, c), and the update addressed
\* by the string equals the update addressed by that key sequence.
C8_PathEquivalence ==
  /\ getPathArray(StrPath(DotBracket("a", "b", "c"))).a = <<Str1("a"), Str1("b"), Str1("c")>>
  /\ (last.mode = "free" /\ last.path.kind = "str")
     => /\ getPathArray(last.path) = ArrPath(RefKeys(last.path.s))
        /\ Strip(last.ret)
             = Strip(updateSilent(last.source, last.type, ArrPath(RefKeys(last.path.s)),
                                  last.value, nextId).val)

C8_Witness ==
  /\ last.mode = "free"
  /\ last.path = StrPath(<<"[", "l", "]", ".">>)
  /\ last.type = "push"
  /\ last.ok
  /\ Lookup(last.ret, <<Str1("l")>>).e = <<Num(1), last.value>>

-----------------------------------------------------------------------------
(* Properties of the bound update and of the dispatch, checked under Spec *)

\* the call just made, in a step of Update
Called == nCalls' = nCalls + 1

Last(seq) == seq[Len(seq)]

\* C3: the base state a bound call starts from is the state committed at the
\* start of the tick with the fragments of all earlier calls of the tick
\* merged in, in order.
C3_BaseIsCumulative ==
  last.mode = "bound" => StripFields(last.base) = StripFields(last.expect)

\* a str that is one property name: a single key, no delimiter
IsPropName(str) == RefKeys(str) = <<str>>

\* a set call with a mapping of several distinct property names
MultiPropSet(c) ==
  /\ c.mode = "bound"
  /\ c.type = "set"
  /\ c.path.kind = "map"
  /\ Len(c.path.m) >= 2
  /\ \A i \in 1..Len(c.path.m) : IsPropName(c.path.m[i].k)
  /\ \A i, j \in 1..Len(c.path.m) : c.path.m[i].k = c.path.m[j].k => i = j

\* C4: a set call with a mapping M of several distinct property names calls
\* setState exactly once, with a fragment that has exactly the keys and values
\* of M (no other state property), and returns that mapping.
C4_MultiPathCommit ==
  [][(Called /\ MultiPropSet(last'))
     => /\ last'.ok
        /\ DOMAIN last'.frag = {last'.path.m[i].k : i \in 1..Len(last'.path.m)}
        /\ \A i \in 1..Len(last'.path.m) :
             last'.frag[last'.path.m[i].k] = last'.path.m[i].v
        /\ last'.ret = Obj(0, last'.frag)
        /\ commits' = [commits EXCEPT ![last'.this] = @ + 1]
        /\ Len(queue'[last'.this].items) >= 1
        /\ Last(queue'[last'.this].items) = last'.frag]_vars

C4_Witness ==
  /\ MultiPropSet(last)
  /\ last.this = "h1"
  /\ last.ok
  /\ last.frag = [k \in {Str1("a"), Str1("b")} |-> IF k = Str1("a") THEN Num(1) ELSE Num(2)]
  /\ last.ret = Obj(0, last.frag)
  /\ commits["h1"] = 1
  /\ queue["h1"].items = <<last.frag>>

\* C5: a successful bound call returns the new value of the one property it
\* updated, the value it hands to setState for it, and returns the whole
\* fragment when it updated more than one property.
C5_ReturnUnwrapping ==
  (last.mode = "bound" /\ last.ok)
  => /\ Cardinality(DOMAIN last.frag) = 1
          => \A k \in DOMAIN last.frag :
               last.ret = last.frag[k] /\ last.ret # Obj(0, last.frag)
     /\ Cardinality(DOMAIN last.frag) > 1 => last.ret = Obj(0, last.frag)

C5_Witness ==
  /\ last.mode = "bound"
  /\ last.ok
  /\ last.path.kind = "map"
  /\ Len(last.path.m) = 2
  /\ DOMAIN last.frag = {Str1("a")}
  /\ last.ret = last.frag[Str1("a")]
  /\ Strip(last.ret).f = [k \in {Str1("x"), Str1("y")} |-> IF k = Str1("x") THEN Num(1) ELSE Num(2)]

UnknownType(c) == c.mode # "none" /\ c.type \notin {"set", "push", "splice"}

C10_DispatchAndPurity ==
  [][Called
     => IF last'.this \in Hosts
        THEN /\ last'.mode = "bound"
             /\ last'.ret = updateState(state[last'.this], queue[last'.this], cache[last'.this],
                                        last'.type, last'.path, last'.value, nextId).ret
             /\ commits' = [commits EXCEPT ![last'.this] = IF last'.ok THEN @ + 1 ELSE @]
        ELSE /\ last'.mode = "free"
             /\ last'.source = src
             /\ last'.ret = updateSilent(src, last'.type, last'.path, last'.value, nextId).val
             /\ commits' = commits
             /\ cache' = cache
             /\ queue' = queue
             /\ state' = state
             /\ src' = src]_vars

C10_Witness ==
  /\ last.this = "plain"
  /\ last.mode = "free"
  /\ last.ok
  /\ last.source = src
  /\ Lookup(last.ret, <<Str1("a"), Str1("x")>>) = Num(1)
  /\ Lookup(src, <<Str1("a"), Str1("x")>>) = Num(0)
  /\ commits["plain"] = 0
  /\ ~cache["plain"].present
  /\ commits["h1"] = 1

-----------------------------------------------------------------------------
(* Properties of the pending queue, the cache and the committed state,     *)
(* checked under Spec                                                      *)

\* C11: a bound call only reads the host's pending-state queue: every
\* fragment handed to setState since the host's last commit is still in the
\* queue, in order, so the commit merges the update of every call of the tick.
C11_NoUpdateLost ==
  \A h \in Hosts :
    /\ queue[h].present => queue[h].items = tick[h].sent
    /\ ~queue[h].present => tick[h].sent = <<>>

\* a bound call on host h is made in this step
BoundCallOn(h) == Called /\ last'.mode = "bound" /\ last'.this = h

\* C12: at the start of every bound call the host's cache is created or
\* refreshed if and only if the host has a pending-state queue and is deleted
\* if it has none; a call that starts with no pending queue has the host's
\* committed state as its base, whatever cache an earlier tick left.
C12_CacheLifecycle ==
  [][\A h \in Hosts :
       BoundCallOn(h)
       => /\ cache'[h].present <=> queue[h].present
          /\ ~queue[h].present => last'.base = state[h]]_vars

\* the third call on h1 starts a tick after a commit, while the cache that the
\* second call created was still there
C12_Witness ==
  /\ nCalls = 3
  /\ prev.mode = "bound" /\ prev.this = "h1" /\ prev.ok
  /\ prev.base # HostState("h1")
  /\ last.mode = "bound" /\ last.this = "h1" /\ last.ok
  /\ tick["h1"].sent = <<last.frag>>
  /\ tick["h1"].start # HostState("h1")
  /\ last.base = tick["h1"].start
  /\ ~cache["h1"].present

-----------------------------------------------------------------------------
(* Properties of the command tree and of the path argument *)

\* tree is prim under exactly the keys, one single-key level for each,
\* outermost first
RECURSIVE NestedUnder(_, _, _)
NestedUnder(tree, keys, prim) ==
  IF keys = <<>> THEN tree = prim
  ELSE /\ tree.t = "obj"
       /\ DOMAIN tree.f = {Head(keys)}
       /\ NestedUnder(tree.f[Head(keys)], Tail(keys), prim)

\* the command tree updateSilent builds for the call c
TreeOf(c) == getImmutabilitySugar(c.type, getPathArray(c.path), c.value).val

\* C13: the command tree of a call has one single-key level for each key of
\* the resolved path, in path order, above the primitive command; for an
\* absent path, an empty string and an empty key sequence the primitive
\* command is the root.
C13_CommandTreeShape ==
  (last.mode = "free" /\ ~UnknownType(last))
  => NestedUnder(TreeOf(last), KeysOf(last.path),
                 getImmutabilitySugarCommand(last.type, last.value))

-----------------------------------------------------------------------------
(* Properties of multi-path calls, checked under Spec *)

\* a bound call with a mapping of several paths under one top-level property
SamePropCall(c) ==
  /\ c.mode = "bound"
  /\ c.path.kind = "map"
  /\ Len(c.path.m) >= 2
  /\ \A i \in 1..Len(c.path.m) :
       /\ RefKeys(c.path.m[i].k) # <<>>
       /\ Head(RefKeys(c.path.m[i].k)) = Head(RefKeys(c.path.m[1].k))

\* the pure update of v at the keys (at v itself when there are none)
PureUpdateAt(v, type, keys, value) ==
  updateSilent(v, type, IF keys = <<>> THEN NoPath ELSE ArrPath(keys), value, 0).val

\* the per-path updates applied one after another, in the order of the entries
RECURSIVE AppliedInOrder(_, _, _)
AppliedInOrder(v, type, entries) ==
  IF entries = <<>> \/ v.t = "error" THEN v
  ELSE AppliedInOrder(PureUpdateAt(v, type, Tail(RefKeys(Head(entries).k)), Head(entries).v),
                      type, Tail(entries))

\* what C14 says the property of the call c gets
InOrderResult(c) ==
  AppliedInOrder(Get(c.base, Head(RefKeys(c.path.m[1].k))), c.type, c.path.m)

\* C14: when several paths of one bound call lie under the same top-level
\* property, the value committed and returned for it is the base value of the
\* property with the per-path updates applied one after another in the
\* mapping's key order; the call fails exactly when that sequence fails.
C14_CollisionInOrder ==
  SamePropCall(last)
  => /\ last.ok <=> InOrderResult(last).t # "error"
     /\ last.ok
        => /\ DOMAIN last.frag = {Head(RefKeys(last.path.m[1].k))}
           /\ \A k \in DOMAIN last.frag :
                /\ Strip(last.frag[k]) = Strip(InOrderResult(last))
                /\ last.ret = last.frag[k]

\* set {'a.x': 1, 'a.y': 2} as second call of a tick whose first call set b
C14_Witness ==
  /\ nCalls = 2
  /\ SamePropCall(last)
  /\ last.ok
  /\ Get(last.base, Str1("b")) = Num(5)
  /\ Get(tick["h1"].start, Str1("a")).f
       = [k \in {Str1("x"), Str1("y")} |-> Num(0)]
  /\ Strip(last.frag[Str1("a")]).f
       = [k \in {Str1("x"), Str1("y")} |-> IF k = Str1("x") THEN Num(1) ELSE Num(2)]

\* push {'l': 1, '[l]': 2}: both pushes arrive, in order
C14_WitnessPush ==
  /\ SamePropCall(last)
  /\ last.type = "push"
  /\ last.ok
  /\ Get(last.base, Str1("l")).e = <<Num(0)>>
  /\ Strip(last.ret).e = <<Num(0), Num(1), Num(2)>>

-----------------------------------------------------------------------------
(* Frame properties *)

\* C15: a bound call never writes into the host's committed state: the state
\* mapping of every host holds what construction or the host's last commit
\* left in it.
C15_CommittedStateUntouched ==
  \A h \in Hosts : state[h] = tick[h].start

\* C16: a call leaves the key sequence passed as its path argument as it was,
\* so the caller's path object never changes.
C16_PathArgumentUnchanged ==
  [][pathArg' = pathArg]_vars

-----------------------------------------------------------------------------
(* Plain-object values in a multi-path mapping, checked under Spec *)

\* a bound set call whose mapping has distinct property names as keys and a
\* plain object as the value of one of them
MappingValueSet(c) ==
  /\ c.mode = "bound"
  /\ c.type = "set"
  /\ c.path.kind = "map"
  /\ \A i \in 1..Len(c.path.m) : IsPropName(c.path.m[i].k)
  /\ \A i, j \in 1..Len(c.path.m) : c.path.m[i].k = c.path.m[j].k => i = j
  /\ \E i \in 1..Len(c.path.m) : c.path.m[i].v.t = "obj"

-----------------------------------------------------------------------------
(* Failure and isolation, checked under Spec *)

\* C18: a bound call that fails calls no setState and leaves the host's
\* committed state and its pending-state queue, with the fragments of the
\* earlier calls of the tick, as they were.
C18_StateUnchangedOnError ==
  [][\A h \in Hosts :
       (BoundCallOn(h) /\ ~last'.ok)
       => /\ commits' = commits
          /\ state'[h] = state[h]
          /\ queue'[h] = queue[h]]_vars

\* the numbers that occur in a value
RECURSIVE NumsIn(_)
NumsIn(v) ==
  IF v.t = "num" THEN {v.n}
  ELSE IF v.t = "arr" THEN UNION {NumsIn(v.e[i]) : i \in 1..Len(v.e)}
  ELSE IF v.t = "obj" THEN UNION {NumsIn(v.f[k]) : k \in DOMAIN v.f}
  ELSE {}

NumsInFields(fields) == UNION {NumsIn(fields[k]) : k \in DOMAIN fields}

\* the numbers a request carries as values
NumsOfReq(req) ==
  NumsIn(req.value) \cup UNION {NumsIn(req.path.m[i].v) : i \in 1..Len(req.path.m)}

\* the numbers that the initial state of host h or a call on h brings in
OwnNums(h) ==
  NumsInFields(HostState(h)) \cup UNION {NumsOfReq(req) : req \in ReqsOf(h)}

\* the numbers that only calls on hosts other than h bring in
ForeignNums(h) ==
  UNION {OwnNums(g) : g \in Hosts \ {h}} \ OwnNums(h)

\* C19: a bound call on one host leaves the cache, the committed state and
\* the pending queue of every other host as they were, and the base state it
\* starts from holds no value that only calls on other hosts have written.
C19_HostIsolation ==
  [][\A h \in Hosts :
       BoundCallOn(h)
       => /\ \A g \in Hosts \ {h} :
               /\ cache'[g] = cache[g]
               /\ state'[g] = state[g]
               /\ queue'[g] = queue[g]
          /\ NumsInFields(last'.base) \cap ForeignNums(h) = {}]_vars

\* calls on h2, h1, h2: the second call on h2 starts from h2's own cache while
\* h1 has a fragment pending
C19_Witness ==
  /\ nCalls = 3
  /\ prev.mode = "bound" /\ prev.this = "h1" /\ prev.ok
  /\ last.mode = "bound" /\ last.this = "h2" /\ last.ok
  /\ cache["h2"].present
  /\ ~cache["h1"].present
  /\ queue["h1"].items = <<prev.frag>>
  /\ Get(last.base, Str1("b")) = Num(8)
  /\ Get(prev.base, Str1("b")) = Num(0)
  /\ ForeignNums("h1") = {7, 8}

=============================================================================
